---------------------------- MODULE Spec2Model ----------------------------
(***************************************************************************)
(* Masterblog API (backend/backend_app.py): a flat-file store of blog      *)
(* posts with list (sort, pagination), create, update, delete and search   *)
(* handlers.                                                               *)
(*                                                                         *)
(* A string is a sequence of code points (66 is "B", 97 is "a"), so that   *)
(* Python's comparison, lower() and substring test are computed, not       *)
(* assumed.  A post is a record [id, title, content].  The JSON body of a  *)
(* request is a function from a subset of {"title", "content"} to strings  *)
(* (a JSON object with string members).                                    *)
(***************************************************************************)
EXTENDS Integers, Sequences, FiniteSets, TLC

VARIABLES
    file,       \* DATA_FILE: [kind: "missing" | "corrupt" | "json", posts, len]
    hits,       \* limiter: requests of the client counted in the open window
                \* of each endpoint
    req,        \* the request handled last (sequential handlers)
    resp,       \* its response: [status, body]
    prev,       \* load_posts() as it was when that request arrived
    assigned,   \* history: ids that creates before that request assigned
    pc,         \* per worker thread: "idle", "loaded", "writing" or "done"
    local,      \* per worker thread: the list its load_posts() returned
    creq,       \* per worker thread: the request it is handling
    cresp       \* per worker thread: its response

vars == <<file, hits, req, resp, prev, assigned, pc, local, creq, cresp>>

----------------------------------------------------------------------------
(* Bounds of the model *)

MaxPosts == 2       \* Spec: a create is taken only while the store holds
                    \* fewer posts
MaxId == 3          \* largest id a create may assign, largest id in a request
MaxInit == 1        \* longest store Spec starts from
MaxStore == 3       \* SpecStore: a create is taken only while the store holds
                    \* fewer posts
MaxSeed == 2        \* longest store SpecStore starts from
MaxRead == 3        \* longest store the read specification starts from
MaxPage == 3        \* page and limit parameters range over -1 .. MaxPage
NProcs == 2         \* worker threads of the concurrent specification

----------------------------------------------------------------------------
(* Python values *)

\* Truthiness of a str: the empty string is falsy.
Truthy(v) == v # << >>

\* str.lower() on the letters A..Z.
Lower(s) == [i \in DOMAIN s |-> IF s[i] \in 65..90 THEN s[i] + 32 ELSE s[i]]

\* needle in hay, for str.
Contains(needle, hay) ==
    \E i \in 0..(Len(hay) - Len(needle)) :
        SubSeq(hay, i + 1, i + Len(needle)) = needle

\* a < b for str: lexicographic by code point, a proper prefix is smaller.
RECURSIVE StrLess(_, _)
StrLess(a, b) ==
    IF b = << >> THEN FALSE
    ELSE IF a = << >> THEN TRUE
    ELSE IF Head(a) # Head(b) THEN Head(a) < Head(b)
    ELSE StrLess(Tail(a), Tail(b))

\* max(S, default=d)
PyMax(S, d) == IF S = {} THEN d ELSE CHOOSE m \in S : \A x \in S : x <= m

\* s[start:end] with Python's treatment of negative and oversized indices.
PyIndex(i, n) == IF i < 0 THEN (IF i + n < 0 THEN 0 ELSE i + n)
                 ELSE (IF i > n THEN n ELSE i)

PySlice(s, start, end) ==
    LET lo == PyIndex(start, Len(s))
        hi == PyIndex(end, Len(s))
    IN  IF lo < hi THEN SubSeq(s, lo + 1, hi) ELSE << >>

Reverse(s) == [i \in 1..Len(s) |-> s[Len(s) + 1 - i]]

Ids(posts) == {posts[i].id : i \in DOMAIN posts}

----------------------------------------------------------------------------
(* Storage *)

\* The file is "missing", "json" (its text is the dump of posts) or "corrupt"
\* (its text, the empty text included, is not a JSON document); len is the
\* length of its text.
load_posts(f) == IF f.kind = "json" THEN f.posts ELSE << >>

RECURSIVE Digits(_)
Digits(n) == IF n < 10 THEN 1 ELSE 1 + Digits(n \div 10)

\* Length of one post as js.dump(posts, file, indent=4) writes it (the fields
\* are letters, which are written as they are).
PostTextLen(post) == 70 + Digits(post.id) + Len(post.title) + Len(post.content)

RECURSIVE PostsTextLen(_)
PostsTextLen(posts) ==
    IF posts = << >> THEN 0
    ELSE PostTextLen(Head(posts)) + PostsTextLen(Tail(posts))

\* Length of the text of js.dump(posts, file, indent=4): "[]" for the empty
\* list, else "[\n", the posts separated by ",\n", and "\n]".
TextLen(posts) ==
    IF posts = << >> THEN 2
    ELSE 2 + PostsTextLen(posts) + 2 * (Len(posts) - 1) + 2

\* open(DATA_FILE, "w"): the file exists and is empty.
open_w == [kind |-> "corrupt", posts |-> << >>, len |-> 0]

\* js.dump(posts, file, indent=4) and the close that flushes it, by a writer
\* whose position is 0: its text replaces the head of the file.  What other
\* writers put beyond its end since it opened the file stays there, and then
\* the text is no JSON document.
js_dump(f, posts) ==
    IF f.len <= TextLen(posts)
    THEN [kind |-> "json", posts |-> posts, len |-> TextLen(posts)]
    ELSE [kind |-> "corrupt", posts |-> << >>, len |-> f.len]

\* save_posts run without interruption
save_posts(posts) == js_dump(open_w, posts)

----------------------------------------------------------------------------
(* Rate limits (flask_limiter): one counter per client address and        *)
(* endpoint, here for one client; a window opens with the first counted   *)
(* request and the counter is gone when it ends.                          *)

PostRateLimit == 10
DefaultRateLimit == 100

Endpoints ==
    {"add_post", "delete_post", "update_post", "get_posts", "search_posts"}

\* @limiter.limit on add_post replaces the default limits there.
RateLimit(endpoint) ==
    IF endpoint = "add_post" THEN PostRateLimit ELSE DefaultRateLimit

NoHits == [e \in Endpoints |-> 0]

\* Every request is counted, refused ones too; counts above the limit are
\* not told apart.
limiter_hit(h, endpoint) ==
    [h EXCEPT ![endpoint] = IF @ > RateLimit(endpoint) THEN @ ELSE @ + 1]

Admitted(h, endpoint) == limiter_hit(h, endpoint)[endpoint] <= RateLimit(endpoint)

too_many_requests ==
    [status |-> 429, body |-> <<"429 Too Many Requests">>]

----------------------------------------------------------------------------
(* Error responses *)

bad_request(description) ==
    [status |-> 400,
     body |-> [status |-> 400,
               message |-> <<"400 Bad Request: ">> \o description]]

not_found ==
    [status |-> 404,
     body |-> [status |-> 404, message |-> <<"Resource not found">>]]

\* ', '.join(fields)
RECURSIVE Join(_)
Join(fields) ==
    IF Len(fields) <= 1 THEN fields
    ELSE <<Head(fields), ", ">> \o Join(Tail(fields))

----------------------------------------------------------------------------
(* POST /api/posts *)

NewIdByCount(posts) == Len(posts) + 1

new_id(posts) == PyMax(Ids(posts), 0) + 1

MissingFields(data) ==
    SelectSeq(<<"title", "content">>,
              LAMBDA field : field \notin DOMAIN data \/ ~Truthy(data[field]))

AddPostPrepend(posts, data) ==
    LET missing == MissingFields(data)
        new_post == [id |-> new_id(posts), title |-> data["title"],
                     content |-> data["content"]]
    IN  IF missing # << >>
        THEN [saved |-> FALSE, posts |-> posts,
              resp |-> bad_request(<<"Missing field: ">> \o Join(missing))]
        ELSE [saved |-> TRUE, posts |-> <<new_post>> \o posts,
              resp |-> [status |-> 201, body |-> new_post]]

add_post(posts, data) ==
    LET missing == MissingFields(data)
        new_post == [id |-> new_id(posts), title |-> data["title"],
                     content |-> data["content"]]
    IN  IF missing # << >>
        THEN [saved |-> FALSE, posts |-> posts,
              resp |-> bad_request(<<"Missing field: ">> \o Join(missing))]
        ELSE [saved |-> TRUE, posts |-> Append(posts, new_post),
              resp |-> [status |-> 201, body |-> new_post]]

----------------------------------------------------------------------------
(* DELETE /api/posts/<post_id> *)

DeletePostFirst(posts, post_id) ==
    IF post_id \notin Ids(posts)
    THEN [saved |-> FALSE, posts |-> posts, resp |-> not_found]
    ELSE [saved |-> TRUE, posts |-> Tail(posts),
          resp |-> [status |-> 200, body |-> [message |-> "Post deleted"]]]

delete_post(posts, post_id) ==
    IF post_id \notin Ids(posts)
    THEN [saved |-> FALSE, posts |-> posts, resp |-> not_found]
    ELSE [saved |-> TRUE,
          posts |-> SelectSeq(posts, LAMBDA post : post.id # post_id),
          resp |-> [status |-> 200, body |-> [message |-> "Post deleted"]]]

----------------------------------------------------------------------------
(* PUT /api/posts/<post_id> *)

UpdatePostMoveLast(posts, post_id, data) ==
    IF DOMAIN data = {} \/ "title" \notin DOMAIN data
                        \/ "content" \notin DOMAIN data
    THEN [saved |-> FALSE, posts |-> posts,
          resp |-> bad_request(<<"Missing title or content">>)]
    ELSE IF post_id \notin Ids(posts)
    THEN [saved |-> FALSE, posts |-> posts, resp |-> not_found]
    ELSE LET new_post == [id |-> post_id, title |-> data["title"],
                          content |-> data["content"]]
         IN  [saved |-> TRUE,
              posts |-> Append(SelectSeq(posts,
                                   LAMBDA post : post.id # post_id), new_post),
              resp |-> [status |-> 200, body |-> new_post]]

update_post(posts, post_id, data) ==
    IF DOMAIN data = {} \/ "title" \notin DOMAIN data
                        \/ "content" \notin DOMAIN data
    THEN [saved |-> FALSE, posts |-> posts,
          resp |-> bad_request(<<"Missing title or content">>)]
    ELSE IF post_id \notin Ids(posts)
    THEN [saved |-> FALSE, posts |-> posts, resp |-> not_found]
    ELSE LET item == CHOOSE i \in DOMAIN posts :
                        /\ posts[i].id = post_id
                        /\ \A j \in 1..(i - 1) : posts[j].id # post_id
             new_post == [id |-> post_id, title |-> data["title"],
                          content |-> data["content"]]
         IN  [saved |-> TRUE,
              posts |-> [posts EXCEPT ![item] = new_post],
              resp |-> [status |-> 200, body |-> new_post]]

\* The file after a handler: rewritten only when the handler called save_posts.
FileAfter(f, r) == IF r.saved THEN save_posts(r.posts) ELSE f

----------------------------------------------------------------------------
(* Inputs *)

\* "", "a", "B"
StrVals == {<< >>, <<97>>, <<66>>}

\* "", "a"
ContentVals == {<< >>, <<97>>}

\* JSON objects with any subset of the members title and content.
Bodies ==
    {d \in UNION {[D -> StrVals] : D \in SUBSET {"title", "content"}} :
        "content" \in DOMAIN d => d["content"] \in ContentVals}

PostIds == 1..MaxId

\* Stores a run of creates and deletes leaves behind: ids distinct and
\* ascending, fields non-empty.
RECURSIVE StoresOf(_, _, _, _)
StoresOf(n, ids, titles, contents) ==
    IF n = 0 THEN {<< >>}
    ELSE LET shorter == StoresOf(n - 1, ids, titles, contents)
         IN  shorter \cup
             {Append(s, [id |-> i, title |-> t, content |-> c]) :
                 s \in {x \in shorter : Len(x) = n - 1},
                 i \in ids, t \in titles, c \in contents}

Ascending(posts) ==
    \A i, j \in DOMAIN posts : i < j => posts[i].id < posts[j].id

InitStores ==
    {s \in StoresOf(MaxInit, 1..MaxInit, StrVals \ {<< >>},
                    ContentVals \ {<< >>}) : Ascending(s)}

InitFiles ==
    {[kind |-> "missing", posts |-> << >>, len |-> 0], open_w}
    \cup {save_posts(s) : s \in InitStores}

NoReq == [op |-> "none"]
NoResp == [status |-> 0, body |-> << >>]

\* ids a create of the last request added to the history
JustAssigned ==
    IF req.op = "create" /\ resp.status = 201 THEN {resp.body.id} ELSE {}

Init ==
    /\ file \in InitFiles
    /\ hits = NoHits
    /\ req = NoReq
    /\ resp = NoResp
    /\ prev = load_posts(file)
    /\ assigned = {}
    /\ pc = [p \in 1..NProcs |-> "idle"]
    /\ local = [p \in 1..NProcs |-> << >>]
    /\ creq = [p \in 1..NProcs |-> NoReq]
    /\ cresp = [p \in 1..NProcs |-> NoResp]

\* A request to endpoint, handled without interruption, when the limiter's
\* counters are h: it is counted, and the handler runs (with result r) only
\* if the limiter admits it.
Handled(request, endpoint, h, r) ==
    /\ hits' = limiter_hit(h, endpoint)
    /\ req' = request
    /\ prev' = load_posts(file)
    /\ IF Admitted(h, endpoint)
       THEN resp' = r.resp /\ file' = FileAfter(file, r)
       ELSE resp' = too_many_requests /\ file' = file
    /\ assigned' = assigned \cup JustAssigned
    /\ UNCHANGED <<pc, local, creq, cresp>>

\* POST /api/posts; a create that saves is taken only while the store holds
\* fewer than most posts.
AddPostAt(h, bodies, most) ==
    \E data \in bodies :
        LET posts == load_posts(file)
            r == add_post(posts, data)
        IN  /\ (Admitted(h, "add_post") /\ r.saved)
                  => (Len(posts) < most /\ new_id(posts) <= MaxId)
            /\ Handled([op |-> "create", data |-> data], "add_post", h, r)

DeletePostAt(h, ids) ==
    \E post_id \in ids :
        Handled([op |-> "delete", id |-> post_id], "delete_post", h,
                delete_post(load_posts(file), post_id))

UpdatePostAt(h, ids, bodies) ==
    \E post_id \in ids, data \in bodies :
        Handled([op |-> "update", id |-> post_id, data |-> data],
                "update_post", h,
                update_post(load_posts(file), post_id, data))

\* Spec: the requests of a client that lets the window of its earlier
\* requests end before it sends the next one, so that the limiter's counters
\* are NoHits when a request arrives.  SpecLimit below is the client that
\* does not wait.
AddPost == AddPostAt(NoHits, Bodies, MaxPosts)

DeletePost == DeletePostAt(NoHits, PostIds)

UpdatePost == UpdatePostAt(NoHits, PostIds, Bodies)

Next == AddPost \/ DeletePost \/ UpdatePost

Spec == Init /\ [][Next]_vars

----------------------------------------------------------------------------
(* Longer stores *)

\* SpecStore runs the same three handlers on stores of up to MaxStore posts.
\* Spec sends every body to stores of at most MaxPosts posts; SpecStore
\* sends every body to create, and to update the empty object and the
\* bodies with both fields non-empty, so that the stored fields stay among
\* "a" and "B" and the longer stores can be explored exhaustively.

\* "a", "B"
SeedTitles == {<<97>>, <<66>>}

\* "a"
SeedContents == {<<97>>}

\* The data file comes with the deployment: any list of up to MaxSeed posts
\* with pairwise distinct ids, in any order of ids.
SeedStores ==
    {s \in StoresOf(MaxSeed, 1..MaxSeed, SeedTitles, SeedContents) :
        \A i, j \in DOMAIN s : i # j => s[i].id # s[j].id}

SeedFiles ==
    {[kind |-> "missing", posts |-> << >>, len |-> 0]}
    \cup {save_posts(s) : s \in SeedStores}

\* {} and the objects whose title and content are both non-empty
StoreUpdateBodies ==
    {d \in Bodies : DOMAIN d = {} \/ (\A f \in {"title", "content"} :
                                         f \in DOMAIN d /\ d[f] # << >>)}

InitStore ==
    /\ file \in SeedFiles
    /\ hits = NoHits
    /\ req = NoReq
    /\ resp = NoResp
    /\ prev = load_posts(file)
    /\ assigned = {}
    /\ pc = [p \in 1..NProcs |-> "idle"]
    /\ local = [p \in 1..NProcs |-> << >>]
    /\ creq = [p \in 1..NProcs |-> NoReq]
    /\ cresp = [p \in 1..NProcs |-> NoResp]

StoreAddPost == AddPostAt(NoHits, Bodies, MaxStore)

StoreDeletePost == DeletePostAt(NoHits, PostIds)

StoreUpdatePost == UpdatePostAt(NoHits, PostIds, StoreUpdateBodies)

NextStore == StoreAddPost \/ StoreDeletePost \/ StoreUpdatePost

SpecStore == InitStore /\ [][NextStore]_vars

----------------------------------------------------------------------------
(* GET /api/posts *)

DefaultPage == 1
DefaultLimit == 10

\* request.args.get(name, default): a parameter is << >> when the query
\* string does not carry it and <<value>> when it does.
ArgsGet(param, default) == IF param = << >> THEN default ELSE param[1]

Front(s) == SubSeq(s, 1, Len(s) - 1)

\* list.sort(key=lambda p: p[field]) is stable: an element goes after every
\* element whose key is not greater than its own.
RECURSIVE InsertSorted(_, _, _)
InsertSorted(sorted, x, field) ==
    IF sorted = << >> THEN <<x>>
    ELSE IF StrLess(x[field], sorted[Len(sorted)][field])
    THEN Append(InsertSorted(Front(sorted), x, field), sorted[Len(sorted)])
    ELSE Append(sorted, x)

RECURSIVE StableSort(_, _)
StableSort(s, field) ==
    IF s = << >> THEN << >>
    ELSE InsertSorted(StableSort(Front(s), field), s[Len(s)], field)

ListSortUnstable(s, field, reverse) ==
    IF reverse THEN Reverse(StableSort(s, field)) ELSE StableSort(s, field)

\* list.sort(key=..., reverse=reverse): with reverse the list is reversed,
\* sorted and reversed again, which keeps equal keys in their original order.
list_sort(s, field, reverse) ==
    IF reverse THEN Reverse(StableSort(Reverse(s), field))
    ELSE StableSort(s, field)

get_posts(posts, args) ==
    LET sort_field == args.sort
        direction == ArgsGet(args.direction, "asc")
        sorting == sort_field # << >> /\ sort_field[1] # ""
    IN  IF sorting /\ sort_field[1] \notin {"title", "content"}
        THEN [saved |-> FALSE, posts |-> posts,
              resp |-> bad_request(<<"Invalid sort field">>)]
        ELSE IF direction \notin {"asc", "desc"}
        THEN [saved |-> FALSE, posts |-> posts,
              resp |-> bad_request(<<"Invalid sort direction">>)]
        ELSE LET posts_copy ==
                     IF sorting
                     THEN list_sort(posts, sort_field[1], direction = "desc")
                     ELSE posts
                 page == ArgsGet(args.page, DefaultPage)
                 limit == ArgsGet(args.limit, DefaultLimit)
                 start == (page - 1) * limit
                 end == start + limit
             IN  [saved |-> FALSE, posts |-> posts,
                  resp |-> [status |-> 200,
                            body |-> PySlice(posts_copy, start, end)]]

----------------------------------------------------------------------------
(* GET /api/posts/search *)

SearchPostsCaseSensitive(posts, args) ==
    LET title_query == Lower(ArgsGet(args.title, << >>))
        content_query == Lower(ArgsGet(args.content, << >>))
    IN  [saved |-> FALSE, posts |-> posts,
         resp |-> [status |-> 200,
                   body |-> SelectSeq(posts, LAMBDA post :
                       \/ (IF Truthy(title_query)
                           THEN Contains(title_query, post.title)
                           ELSE FALSE)
                       \/ (IF Truthy(content_query)
                           THEN Contains(content_query, post.content)
                           ELSE FALSE))]]

search_posts(posts, args) ==
    LET title_query == Lower(ArgsGet(args.title, << >>))
        content_query == Lower(ArgsGet(args.content, << >>))
    IN  [saved |-> FALSE, posts |-> posts,
         resp |-> [status |-> 200,
                   body |-> SelectSeq(posts, LAMBDA post :
                       \/ (IF Truthy(title_query)
                           THEN Contains(title_query, Lower(post.title))
                           ELSE FALSE)
                       \/ (IF Truthy(content_query)
                           THEN Contains(content_query, Lower(post.content))
                           ELSE FALSE))]]

----------------------------------------------------------------------------
(* The read handlers, applied once to a store drawn from a bounded set *)

\* "a", "B", "aB": by code point "B" < "a" < "aB"
ReadTitles == {<<97>>, <<66>>, <<97, 66>>}

\* "b", "Ba"
ReadContents == {<<98>>, <<66, 97>>}

\* absent, "", "b", "A", "ab"
QueryParams == {<< >>, << << >> >>, << <<98>> >>, << <<65>> >>,
                << <<97, 98>> >>}

SortParams == {<< >>, <<"">>, <<"title">>, <<"content">>, <<"id">>}

DirectionParams == {<< >>, <<"asc">>, <<"desc">>, <<"up">>}

\* absent, or an integer
NumberParams == {<< >>} \cup {<<n>> : n \in -1..MaxPage}

ListArgs == [sort : SortParams, direction : DirectionParams,
             page : NumberParams, limit : NumberParams]

SearchArgs == [title : QueryParams, content : QueryParams]

ReadFiles ==
    {[kind |-> "missing", posts |-> << >>, len |-> 0], open_w}
    \cup {save_posts(s) :
            s \in {x \in StoresOf(MaxRead, 1..MaxRead, ReadTitles,
                                  ReadContents) :
                       \A i \in DOMAIN x : x[i].id = i}}

InitRead ==
    /\ file \in ReadFiles
    /\ hits = NoHits
    /\ req = NoReq
    /\ resp = NoResp
    /\ prev = load_posts(file)
    /\ assigned = {}
    /\ pc = [p \in 1..NProcs |-> "idle"]
    /\ local = [p \in 1..NProcs |-> << >>]
    /\ creq = [p \in 1..NProcs |-> NoReq]
    /\ cresp = [p \in 1..NProcs |-> NoResp]

GetPostsAt(h, arguments) ==
    \E args \in arguments :
        Handled([op |-> "list", args |-> args], "get_posts", h,
                get_posts(load_posts(file), args))

SearchPostsAt(h, arguments) ==
    \E args \in arguments :
        Handled([op |-> "search", args |-> args], "search_posts", h,
                search_posts(load_posts(file), args))

GetPosts == req = NoReq /\ GetPostsAt(hits, ListArgs)

SearchPosts == req = NoReq /\ SearchPostsAt(hits, SearchArgs)

NextRead == GetPosts \/ SearchPosts

SpecRead == InitRead /\ [][NextRead]_vars

----------------------------------------------------------------------------
(* The client that does not wait: requests arrive while the windows of its *)
(* earlier requests are open, and a window ends at any time.               *)

\* {"title": "a", "content": "a"}
LimitBodies == {[title |-> <<97>>, content |-> <<97>>]}

LimitListArgs == {[sort |-> << >>, direction |-> << >>,
                   page |-> << >>, limit |-> << >>]}

LimitSearchArgs == {[title |-> << <<65>> >>, content |-> << >>]}

\* The client keeps to one of the endpoints under the default limit while
\* that endpoint's window is open.
OneAtATime(endpoint) ==
    \A e \in Endpoints \ {endpoint, "add_post"} : hits[e] = 0

RapidAddPost == AddPostAt(hits, LimitBodies, MaxPosts)

RapidDeletePost ==
    OneAtATime("delete_post") /\ DeletePostAt(hits, {1})

RapidUpdatePost ==
    OneAtATime("update_post") /\ UpdatePostAt(hits, {1}, LimitBodies)

RapidGetPosts ==
    OneAtATime("get_posts") /\ GetPostsAt(hits, LimitListArgs)

RapidSearchPosts ==
    OneAtATime("search_posts") /\ SearchPostsAt(hits, LimitSearchArgs)

\* The window of an endpoint ends (a minute for add_post, an hour for the
\* others, after the first request counted in it).
WindowEnds ==
    \E e \in Endpoints :
        /\ hits[e] > 0
        /\ hits' = [hits EXCEPT ![e] = 0]
        /\ UNCHANGED <<file, req, resp, prev, assigned, pc, local, creq, cresp>>

InitLimit ==
    /\ file = save_posts(<< >>)
    /\ hits = NoHits
    /\ req = NoReq
    /\ resp = NoResp
    /\ prev = << >>
    /\ assigned = {}
    /\ pc = [p \in 1..NProcs |-> "idle"]
    /\ local = [p \in 1..NProcs |-> << >>]
    /\ creq = [p \in 1..NProcs |-> NoReq]
    /\ cresp = [p \in 1..NProcs |-> NoResp]

NextLimit ==
    \/ RapidAddPost
    \/ RapidDeletePost
    \/ RapidUpdatePost
    \/ RapidGetPosts
    \/ RapidSearchPosts
    \/ WindowEnds

SpecLimit == InitLimit /\ [][NextLimit]_vars

----------------------------------------------------------------------------
(* Concurrent callers: the development server started by app.run handles  *)
(* each request in a thread of its own, and no handler takes a lock.  The  *)
(* steps of a thread that other threads can see are its load_posts(), the  *)
(* open(DATA_FILE, "w") of its save_posts(), which empties the file, and   *)
(* the js.dump and close that write its text; what lies between them works *)
(* on the thread's own list.                                               *)

Procs == 1..NProcs

\* Bodies with both members non-empty, and the empty object.
ConcBodies ==
    {d \in Bodies : DOMAIN d = {} \/ (\A f \in {"title", "content"} :
                                         f \in DOMAIN d /\ d[f] # << >>)}

ConcRequests ==
    {[op |-> "create", data |-> d] : d \in ConcBodies}
    \cup {[op |-> "update", id |-> i, data |-> d] :
             i \in 1..MaxPosts, d \in ConcBodies}
    \cup {[op |-> "delete", id |-> i] : i \in 1..MaxPosts}

EndpointOf(request) ==
    CASE request.op = "create" -> "add_post"
      [] request.op = "update" -> "update_post"
      [] request.op = "delete" -> "delete_post"

\* The handler of a request, run on the list the thread loaded.
Handle(request, posts) ==
    CASE request.op = "create" -> add_post(posts, request.data)
      [] request.op = "update" -> update_post(posts, request.id, request.data)
      [] request.op = "delete" -> delete_post(posts, request.id)

\* A request arrives: the limiter counts it, and the handler starts with
\* posts = load_posts() if it is admitted.
ConcLoad(p) ==
    /\ pc[p] = "idle"
    /\ \E request \in ConcRequests :
          /\ creq' = [creq EXCEPT ![p] = request]
          /\ hits' = limiter_hit(hits, EndpointOf(request))
          /\ IF Admitted(hits, EndpointOf(request))
             THEN /\ local' = [local EXCEPT ![p] = load_posts(file)]
                  /\ pc' = [pc EXCEPT ![p] = "loaded"]
                  /\ cresp' = cresp
             ELSE /\ local' = local
                  /\ pc' = [pc EXCEPT ![p] = "done"]
                  /\ cresp' = [cresp EXCEPT ![p] = too_many_requests]
    /\ UNCHANGED <<file, req, resp, prev, assigned>>

\* The handler up to the open(DATA_FILE, "w") of save_posts, or up to its
\* abort when it does not save.
ConcOpen(p) ==
    /\ pc[p] = "loaded"
    /\ LET r == Handle(creq[p], local[p])
       IN  IF r.saved
           THEN /\ file' = open_w
                /\ pc' = [pc EXCEPT ![p] = "writing"]
                /\ cresp' = cresp
           ELSE /\ file' = file
                /\ pc' = [pc EXCEPT ![p] = "done"]
                /\ cresp' = [cresp EXCEPT ![p] = r.resp]
    /\ UNCHANGED <<hits, req, resp, prev, assigned, local, creq>>

\* js.dump, the close of the file, and the response
ConcWrite(p) ==
    /\ pc[p] = "writing"
    /\ LET r == Handle(creq[p], local[p])
       IN  /\ file' = js_dump(file, r.posts)
           /\ cresp' = [cresp EXCEPT ![p] = r.resp]
    /\ pc' = [pc EXCEPT ![p] = "done"]
    /\ UNCHANGED <<hits, req, resp, prev, assigned, local, creq>>

NextConc == \E p \in Procs : ConcLoad(p) \/ ConcOpen(p) \/ ConcWrite(p)

SpecConc == Init /\ [][NextConc]_vars

----------------------------------------------------------------------------
(* Claims about create, update and delete (specifications Spec, SpecStore) *)

Posts == load_posts(file)

Present(data, field) == field \in DOMAIN data /\ data[field] # << >>

ValidBody(data) == Present(data, "title") /\ Present(data, "content")

\* C1: starting from a store with pairwise distinct ids, after any sequence
\* of create, update and delete operations no two posts of the store have
\* the same id.
C1_UniqueIds ==
    \A i, j \in DOMAIN Posts : i # j => Posts[i].id # Posts[j].id

\* C1 witness: a create has added a second post after an earlier create.
C1_Witness ==
    /\ req.op = "create" /\ resp.status = 201
    /\ Len(Posts) = 2 /\ assigned # {}

\* C2 (as stated): the id a create assigns is greater than, hence different
\* from, every id an earlier create of the history assigned, deleted or not.
C2_NeverReused ==
    (req.op = "create" /\ resp.status = 201)
        => \A a \in assigned : resp.body.id > a

\* C2 (amended): the id a create assigns is greater than every id in the
\* store at that time, and it is greater than every id assigned by an earlier
\* create exactly when no earlier create assigned an id or the post with the
\* largest id assigned so far is still in the store.
C2_FreshWhileMaxStored ==
    (req.op = "create" /\ resp.status = 201)
        => /\ \A i \in Ids(prev) : resp.body.id > i
           /\ (\A a \in assigned : resp.body.id > a)
                <=> (assigned = {} \/ PyMax(assigned, 0) \in Ids(prev))

\* C2 witness: a create has assigned an id that an earlier create assigned.
C2_Witness ==
    /\ req.op = "create" /\ resp.status = 201
    /\ resp.body.id \in assigned

\* C4 (as stated): an update whose title or content is missing or empty is
\* answered 400, whether or not the id exists, and leaves the store unchanged.
C4_UpdateRejectsEmpty ==
    (req.op = "update" /\ ~ValidBody(req.data))
        => (resp.status = 400 /\ Posts = prev)

\* C5: a create with both fields non-empty appends one post with id
\* max(ids, default 0) + 1 and the given fields, keeps the earlier posts and
\* their order, persists, and its id exceeds every earlier id of the store;
\* a create with a missing or empty field is answered 400 and changes nothing.
C5_Create ==
    req.op = "create" =>
        IF ValidBody(req.data)
        THEN /\ resp.status = 201
             /\ file.kind = "json"
             /\ Len(Posts) = Len(prev) + 1
             /\ SubSeq(Posts, 1, Len(prev)) = prev
             /\ Posts[Len(Posts)] = resp.body
             /\ resp.body.title = req.data["title"]
             /\ resp.body.content = req.data["content"]
             /\ \A i \in Ids(prev) : resp.body.id > i
             /\ (resp.body.id - 1) \in (Ids(prev) \cup {0})
        ELSE /\ resp.status = 400
             /\ Posts = prev

\* C5 witness: a create has appended a third post to a store of two posts
\* whose largest id was not the last one, and the two are still the first
\* two posts, in their order.
C5_Witness ==
    /\ req.op = "create" /\ resp.status = 201
    /\ Len(prev) = 2 /\ prev[1].id > prev[2].id
    /\ Len(Posts) = 3 /\ Posts[1] = prev[1] /\ Posts[2] = prev[2]
    /\ Posts[3].id = prev[1].id + 1

\* C6: a successful update changes the title and content of the post with
\* that id and nothing else (same id, same position, same length, other posts
\* untouched); an update of an id no post has, with valid fields, is answered
\* 404 and changes nothing.
C6_UpdateFrame ==
    req.op = "update" =>
        /\ resp.status = 200 =>
             /\ req.id \in Ids(prev)
             /\ Len(Posts) = Len(prev)
             /\ \A i \in DOMAIN prev :
                  IF prev[i].id = req.id
                  THEN Posts[i] = [id |-> req.id,
                                   title |-> req.data["title"],
                                   content |-> req.data["content"]]
                  ELSE Posts[i] = prev[i]
        /\ (ValidBody(req.data) /\ req.id \in Ids(prev)) => resp.status = 200
        /\ (ValidBody(req.data) /\ req.id \notin Ids(prev))
             => (resp.status = 404 /\ Posts = prev)

\* C6 witness: an update has rewritten the first of two posts.
C6_Witness ==
    /\ req.op = "update" /\ resp.status = 200
    /\ Len(prev) = 2 /\ prev[1].id = req.id
    /\ prev[1].title # req.data["title"]

\* C7, one request: a delete of a stored id removes that post and keeps the
\* others in order; a delete of an absent id is answered 404 and changes
\* nothing.
C7_DeleteEffect ==
    req.op = "delete" =>
        IF req.id \in Ids(prev)
        THEN /\ resp.status = 200
             /\ \E k \in DOMAIN prev :
                  /\ prev[k].id = req.id
                  /\ Posts = SubSeq(prev, 1, k - 1)
                               \o SubSeq(prev, k + 1, Len(prev))
        ELSE /\ resp.status = 404
             /\ Posts = prev

\* C7, two requests: a delete that follows a successful delete of the same
\* id is answered 404.
C7_DeleteTwice ==
    (/\ req.op = "delete" /\ resp.status = 200
     /\ req'.op = "delete" /\ req'.id = req.id) => resp'.status = 404

\* C7: delete removes exactly the post with the id (others keep their order),
\* fails with 404 and no change on an absent id, and therefore fails with 404
\* when repeated.
C7_Delete == [](C7_DeleteEffect) /\ [][C7_DeleteTwice]_vars

\* C7 witness: a delete has removed the middle one of three posts, and the
\* first and the third are left, in that order.
C7_Witness ==
    /\ req.op = "delete" /\ resp.status = 200
    /\ Len(prev) = 3 /\ prev[2].id = req.id
    /\ Posts = <<prev[1], prev[3]>>

\* C7, repeated delete reached: the id of a post that a create of this
\* history added has been deleted, a delete of the same id has been answered
\* 404, and two posts are left.
C7_TwiceReached ==
    /\ req.op = "delete" /\ resp.status = 404
    /\ req.id \in assigned /\ Len(Posts) = 2

----------------------------------------------------------------------------
(* Claims about list and search (specification SpecRead) *)

Page == ArgsGet(req.args.page, DefaultPage)
Limit == ArgsGet(req.args.limit, DefaultLimit)

SortGiven == req.args.sort \in {<<"title">>, <<"content">>}

SortValid == req.args.sort \in {<< >>, <<"">>, <<"title">>, <<"content">>}

DirectionValid == req.args.direction \in {<< >>, <<"asc">>, <<"desc">>}

Descending == req.args.direction = <<"desc">>

\* C8 (as stated): a list request with page <= 0 or limit <= 0 is answered
\* 400 instead of a sequence of posts.
C8_RejectsNonPositive ==
    (req.op = "list" /\ (Page <= 0 \/ Limit <= 0)) => resp.status = 400

\* The position of prev[i] in the stable sort of prev by field: one more than
\* the number of posts that must precede it.
Rank(i, field, desc) ==
    1 + Cardinality({j \in DOMAIN prev :
            \/ (IF desc THEN StrLess(prev[i][field], prev[j][field])
                        ELSE StrLess(prev[j][field], prev[i][field]))
            \/ (prev[j][field] = prev[i][field] /\ j < i)})

ExpectedOrder ==
    IF SortGiven
    THEN [r \in DOMAIN prev |->
            prev[CHOOSE i \in DOMAIN prev :
                    Rank(i, req.args.sort[1], Descending) = r]]
    ELSE prev

\* C9: with positive page and limit a list request returns the elements at
\* indices [(page-1)*limit, (page-1)*limit+limit), clipped to the length, of
\* the stable sort of all posts by the sort field (non-decreasing for asc,
\* non-increasing for desc), or of the collection order without a sort field;
\* a page past the end is empty; the store is unchanged.
C9_ListWindow ==
    (req.op = "list" /\ SortValid /\ DirectionValid /\ Page > 0 /\ Limit > 0)
        => LET lo == (Page - 1) * Limit
               hi == IF lo + Limit < Len(prev) THEN lo + Limit ELSE Len(prev)
           IN  /\ resp.status = 200
               /\ Len(resp.body) = (IF hi > lo THEN hi - lo ELSE 0)
               /\ \A k \in 1..Len(resp.body) :
                      resp.body[k] = ExpectedOrder[lo + k]
               /\ lo >= Len(prev) => resp.body = << >>
               /\ Posts = prev

\* C9 witness: the second page of size one of a descending sort by title in
\* which two posts have the same title.
C9_Witness ==
    /\ req.op = "list" /\ resp.status = 200
    /\ req.args.sort = <<"title">> /\ req.args.direction = <<"desc">>
    /\ req.args.page = <<2>> /\ req.args.limit = <<1>>
    /\ Len(prev) >= 2 /\ prev[1].title = prev[2].title
    /\ Len(resp.body) = 1

SameLetter(c, d) ==
    \/ c = d
    \/ (c \in 65..90 /\ d = c + 32)
    \/ (d \in 65..90 /\ c = d + 32)

OccursIgnoringCase(query, text) ==
    \E off \in 0..(Len(text) - Len(query)) :
        \A k \in 1..Len(query) : SameLetter(query[k], text[off + k])

Matches(post) ==
    LET titleQuery == ArgsGet(req.args.title, << >>)
        contentQuery == ArgsGet(req.args.content, << >>)
    IN  \/ (titleQuery # << >> /\ OccursIgnoringCase(titleQuery, post.title))
        \/ (contentQuery # << >>
              /\ OccursIgnoringCase(contentQuery, post.content))

\* C10: search returns, in collection order, exactly the posts whose title
\* contains the non-empty title query or whose content contains the non-empty
\* content query, ignoring case; with both queries empty the result is empty;
\* the store is unchanged.
C10_Search ==
    req.op = "search" =>
        /\ resp.status = 200
        /\ \E idx \in SUBSET DOMAIN prev :
              /\ idx = {i \in DOMAIN prev : Matches(prev[i])}
              /\ Len(resp.body) = Cardinality(idx)
              /\ \A i \in idx :
                    resp.body[Cardinality({j \in idx : j <= i})] = prev[i]
        /\ (ArgsGet(req.args.title, << >>) = << >>
              /\ ArgsGet(req.args.content, << >>) = << >>)
             => resp.body = << >>
        /\ Posts = prev

\* C10 witness: a query in another case than the stored title has selected
\* some posts of the store and not others.
C10_Witness ==
    /\ req.op = "search" /\ resp.status = 200
    /\ req.args.title = << <<98>> >> /\ req.args.content = << >>
    /\ Len(resp.body) >= 1 /\ Len(resp.body) < Len(prev)
    /\ resp.body[1].title = <<66>>

----------------------------------------------------------------------------
(* Claims about concurrent callers (specification SpecConc) *)

Created(p) == creq[p].op = "create" /\ cresp[p].status = 201
Updated(p) == creq[p].op = "update" /\ cresp[p].status = 200
Deleted(p) == creq[p].op = "delete" /\ cresp[p].status = 200

\* C3 (as stated): mutating operations of concurrent callers exclude each
\* other from load to save, so that in every interleaving, once all callers
\* are done, no two creates were given the same id (unless a caller deleted
\* the post with that id) and no successful mutation is missing from the
\* persisted collection (unless another caller's request on the same id
\* replaced it).
C3_NoLostMutation ==
    (\A p \in Procs : pc[p] = "done") =>
        /\ \A p, q \in Procs :
              (p # q /\ Created(p) /\ Created(q))
                  => \/ cresp[p].body.id # cresp[q].body.id
                     \/ \E d \in Procs :
                           Deleted(d) /\ creq[d].id = cresp[p].body.id
        /\ \A p \in Procs :
              (Created(p) \/ Updated(p)) =>
                  \/ \E i \in DOMAIN Posts : Posts[i] = cresp[p].body
                  \/ \E q \in Procs \ {p} :
                        /\ Updated(q) \/ Deleted(q)
                        /\ creq[q].id = cresp[p].body.id
        /\ \A p \in Procs :
              Deleted(p) =>
                  \/ creq[p].id \notin Ids(Posts)
                  \/ \E q \in Procs \ {p} :
                        Created(q) /\ cresp[q].body.id = creq[p].id

=============================================================================
